---- MODULE Spec2Model ----
(***************************************************************************)
(* Model of scripts/design_parameter_matrix.py: the Phase 1 design         *)
(* parameter space (total faces N x exposures per face E).                 *)
(*                                                                         *)
(* The script computes with Python ints (unbounded, exact) and Python      *)
(* floats (IEEE-754 binary64, round-to-nearest-even).  Floats are modelled *)
(* bit-exactly: a float is a sign, an odd arbitrary-precision significand  *)
(* and a binary exponent, and every float operation rounds its exact       *)
(* result to 53 significant bits, ties to even.                            *)
(***************************************************************************)
EXTENDS Integers, Sequences, FiniteSets, TLC

(***************************************************************************)
(* Arbitrary-precision naturals: little-endian sequences of limbs in       *)
(* 0..Base-1 without high zero limbs; zero is << >>.  An intermediate      *)
(* value that is used more than once is handed on as an operator argument. *)
(***************************************************************************)
Base == 2^15

Pow2(n) == 2^n

SetMax(S) == CHOOSE x \in S : \A y \in S : y <= x
SetMin(S) == CHOOSE x \in S : \A y \in S : x <= y

Max0(x) == IF x > 0 THEN x ELSE 0

RECURSIVE BigOfNat(_)
BigOfNat(n) == IF n = 0 THEN << >> ELSE <<n % Base>> \o BigOfNat(n \div Base)

RECURSIVE BigToNat(_)
BigToNat(a) == IF a = << >> THEN 0 ELSE Head(a) + Base * BigToNat(Tail(a))

\* limb k of a, zero above the top limb
Limb(a, k) == IF k <= Len(a) THEN a[k] ELSE 0

\* a up to the highest of the limb positions nz
TrimTo(a, nz) == IF nz = {} THEN << >> ELSE SubSeq(a, 1, SetMax(nz))

\* a without its high zero limbs
Trim(a) == TrimTo(a, {k \in 1..Len(a) : a[k] # 0})

\* a against b of the same length, df the positions where they differ
BigCmpAt(a, b, df) ==
    IF df = {} THEN 0
    ELSE IF a[SetMax(df)] < b[SetMax(df)] THEN -1 ELSE 1

\* -1, 0 or 1 as a < b, a = b, a > b
BigCmp(a, b) ==
    IF Len(a) < Len(b) THEN -1
    ELSE IF Len(a) > Len(b) THEN 1
    ELSE BigCmpAt(a, b, {k \in 1..Len(a) : a[k] # b[k]})

\* The carry chains below run over an index range lo..hi of the limbs and are
\* split in halves, the low half handing its carry to the high half.

RECURSIVE BigAddR(_, _, _, _, _)
BigAddR(a, b, lo, hi, c) ==
    IF lo > hi THEN [s |-> << >>, c |-> c]
    ELSE IF lo = hi
    THEN LET t == Limb(a, lo) + Limb(b, lo) + c
         IN  [s |-> <<t % Base>>, c |-> t \div Base]
    ELSE LET mid == (lo + hi) \div 2
             L   == BigAddR(a, b, lo, mid, c)
             H   == BigAddR(a, b, mid + 1, hi, L.c)
         IN  [s |-> L.s \o H.s, c |-> H.c]

\* the limbs of a carry chain's result with its last carry on top
WithCarry(r) == r.s \o BigOfNat(r.c)

BigAdd(a, b) ==
    WithCarry(BigAddR(a, b, 1, IF Len(a) > Len(b) THEN Len(a) ELSE Len(b), 0))

RECURSIVE BigSubR(_, _, _, _, _)
BigSubR(a, b, lo, hi, br) ==
    IF lo > hi THEN [s |-> << >>, c |-> br]
    ELSE IF lo = hi
    THEN LET d == Limb(a, lo) - Limb(b, lo) - br
         IN  [s |-> <<d % Base>>, c |-> IF d < 0 THEN 1 ELSE 0]
    ELSE LET mid == (lo + hi) \div 2
             L   == BigSubR(a, b, lo, mid, br)
             H   == BigSubR(a, b, mid + 1, hi, L.c)
         IN  [s |-> L.s \o H.s, c |-> H.c]

\* a - b for a >= b
BigSub(a, b) == Trim(BigSubR(a, b, 1, Len(a), 0).s)

RECURSIVE BigMulSmallR(_, _, _, _, _)
BigMulSmallR(a, m, lo, hi, c) ==
    IF lo > hi THEN [s |-> << >>, c |-> c]
    ELSE IF lo = hi
    THEN LET p == a[lo] * m + c
         IN  [s |-> <<p % Base>>, c |-> p \div Base]
    ELSE LET mid == (lo + hi) \div 2
             L   == BigMulSmallR(a, m, lo, mid, c)
             H   == BigMulSmallR(a, m, mid + 1, hi, L.c)
         IN  [s |-> L.s \o H.s, c |-> H.c]

\* a * m for 0 <= m <= Base
BigMulSmall(a, m) ==
    IF m = 0 THEN << >> ELSE WithCarry(BigMulSmallR(a, m, 1, Len(a), 0))

ShiftLimbs(a, k) == IF a = << >> THEN a ELSE [j \in 1..k |-> 0] \o a

RECURSIVE BigMulR(_, _, _, _)
BigMulR(a, b, lo, hi) ==
    IF lo = hi THEN BigMulSmall(a, b[lo])
    ELSE BigAdd(BigMulR(a, b, lo, (lo + hi) \div 2),
                ShiftLimbs(BigMulR(a, b, (lo + hi) \div 2 + 1, hi),
                           (lo + hi) \div 2 + 1 - lo))

BigMul(a, b) ==
    IF a = << >> \/ b = << >> THEN << >> ELSE BigMulR(a, b, 1, Len(b))

\* sq * a for an odd exponent, sq for an even one
BigPowOdd(a, e, sq) == IF e % 2 = 1 THEN BigMul(sq, a) ELSE sq

\* a^e from h = a^(e \div 2)
BigPowStep(a, e, h) == BigPowOdd(a, e, BigMul(h, h))

\* a^e by repeated squaring
RECURSIVE BigPow(_, _)
BigPow(a, e) ==
    IF e = 0 THEN <<1>>
    ELSE CHOOSE p \in {BigPowStep(a, e, h) : h \in {BigPow(a, e \div 2)}} : TRUE

\* long division by a small divisor runs from the top limb down, the high
\* half handing its remainder to the low half
RECURSIVE BigDivSmallR(_, _, _, _, _)
BigDivSmallR(a, d, lo, hi, r) ==
    IF lo > hi THEN [q |-> << >>, r |-> r]
    ELSE IF lo = hi
    THEN LET cur == r * Base + a[lo]
         IN  [q |-> <<cur \div d>>, r |-> cur % d]
    ELSE LET mid == (lo + hi) \div 2
             H   == BigDivSmallR(a, d, mid + 1, hi, r)
             L   == BigDivSmallR(a, d, lo, mid, H.r)
         IN  [q |-> L.q \o H.q, r |-> L.r]

\* a division chain's result with the quotient in canonical form
WithQuotient(res) == [q |-> Trim(res.q), r |-> res.r]

\* quotient and remainder of a by d, for 0 < d <= Base
BigDivSmall(a, d) == WithQuotient(BigDivSmallR(a, d, 1, Len(a), 0))

\* long division by any divisor: each quotient limb is the largest digit q
\* with b * q <= cur = remainder * Base + limb, found by bisection between
\* the bounds that the leading limbs of cur and b give
RECURSIVE QuotDigit(_, _, _, _)
QuotDigit(cur, b, lo, hi) ==
    IF lo >= hi THEN lo
    ELSE IF BigCmp(BigMulSmall(b, (lo + hi + 1) \div 2), cur) <= 0
         THEN QuotDigit(cur, b, (lo + hi + 1) \div 2, hi)
         ELSE QuotDigit(cur, b, lo, (lo + hi + 1) \div 2 - 1)

\* the limbs of cur from position n up, as a number (cur < b * Base has at
\* most one limb more than b)
TopOf(cur, n) == Limb(cur, n) + Base * Limb(cur, n + 1)

\* top \div (btop + 1) <= q <= top \div btop, and q < Base
QuotBetween(cur, b, top, btop) ==
    QuotDigit(cur, b, top \div (btop + 1),
              IF top \div btop < Base THEN top \div btop ELSE Base - 1)

\* one limb of the quotient and the remainder it leaves
DivStepOut(cur, b, qd) == [q |-> <<qd>>, r |-> BigSub(cur, BigMulSmall(b, qd))]

DivStep(cur, b) ==
    DivStepOut(cur, b, QuotBetween(cur, b, TopOf(cur, Len(b)), b[Len(b)]))

\* the low half's quotient limbs under the high half's, the low half's
\* remainder.  The high half is computed in full before the low half starts.
DivJoin(L, H) == [q |-> L.q \o H.q, r |-> L.r]

RECURSIVE BigDivModR(_, _, _, _, _)
BigDivModR(a, b, lo, hi, r) ==
    IF lo > hi THEN [q |-> << >>, r |-> r]
    ELSE IF lo = hi
    THEN DivStep(Trim(<<a[lo]>> \o r), b)
    ELSE CHOOSE res \in {DivJoin(BigDivModR(a, b, lo, (lo + hi) \div 2, H.r), H) :
                             H \in {BigDivModR(a, b, (lo + hi) \div 2 + 1, hi, r)}} : TRUE

\* the remainder of a division by one limb as limbs
WithBigRemainder(res) == [q |-> Trim(res.q), r |-> BigOfNat(res.r)]

RECURSIVE NatBitLen(_)
NatBitLen(n) == IF n = 0 THEN 0 ELSE 1 + NatBitLen(n \div 2)

BitLen(a) == IF a = << >> THEN 0 ELSE 15 * (Len(a) - 1) + NatBitLen(a[Len(a)])

BigShl(a, n) == ShiftLimbs(BigMulSmall(a, Pow2(n % 15)), n \div 15)

BigShr(a, n) ==
    IF n \div 15 >= Len(a) THEN << >>
    ELSE BigDivSmall(SubSeq(a, n \div 15 + 1, Len(a)), Pow2(n % 15)).q

\* the result of dividing A = a * 2^k by B = b * 2^k brought back to a and b
DivUnshift(res, k) == [q |-> Trim(res.q), r |-> BigShr(res.r, k)]

DivShifted(A, B, k) == DivUnshift(BigDivModR(A, B, 1, Len(A), << >>), k)

DivShiftBy(a, b, k) == DivShifted(BigShl(a, k), BigShl(b, k), k)

\* quotient and remainder of a by b # 0; a divisor of several limbs is shifted
\* to fill its top limb, which brings the bounds on each quotient limb close
BigDivMod(a, b) ==
    IF Len(b) = 1
    THEN WithBigRemainder(BigDivSmallR(a, b[1], 1, Len(a), 0))
    ELSE DivShiftBy(a, b, 15 - NatBitLen(b[Len(b)]))

BigIsOdd(a) == a # << >> /\ Head(a) % 2 = 1

RECURSIVE NatTrailingZeros(_)
NatTrailingZeros(n) == IF n % 2 = 1 THEN 0 ELSE 1 + NatTrailingZeros(n \div 2)

TrailingZerosAt(a, k) == 15 * (k - 1) + NatTrailingZeros(a[k])

\* number of low zero bits of a # 0
TrailingZeros(a) == TrailingZerosAt(a, SetMin({j \in 1..Len(a) : a[j] # 0}))

\* q + 1 or q
RoundPick(q, up) == IF up THEN BigAdd(q, <<1>>) ELSE q

\* q2 is a quotient with one bit more than wanted; sticky says that bits
\* below it were set.  The quotient goes up when the extra bit is set and
\* either more was cut off or the quotient is odd.
RoundUp(q2, sticky) ==
    RoundPick(BigShr(q2, 1),
              BigIsOdd(q2) /\ (sticky \/ (Head(q2) \div 2) % 2 = 1))

\* M / 2^sh for sh >= 1, rounded to the nearest natural, ties to even
RoundShr(M, sh) == RoundUp(BigShr(M, sh - 1), TrailingZeros(M) < sh - 1)

(***************************************************************************)
(* Python float (IEEE-754 binary64).  A finite float is                    *)
(* [neg, man, exp] with value (-1)^neg * man * 2^exp, man odd or zero, so  *)
(* that equal values are equal records.  Exponents stay far inside the     *)
(* binary64 range for the inputs considered, so no overflow to infinity    *)
(* and no subnormal results arise.                                         *)
(***************************************************************************)
FZero == [neg |-> FALSE, man |-> << >>, exp |-> 0]

FNormBy(neg, M, e, tz) == [neg |-> neg, man |-> BigShr(M, tz), exp |-> e + tz]

FNorm(neg, M, e) ==
    IF M = << >> THEN FZero ELSE FNormBy(neg, M, e, TrailingZeros(M))

FRoundBy(neg, M, e, sh) ==
    FNorm(neg, IF sh = 0 THEN M ELSE RoundShr(M, sh), e + sh)

\* round (-1)^neg * M * 2^e to 53 significant bits, ties to even
FRound(neg, M, e) == FRoundBy(neg, M, e, Max0(BitLen(M) - 53))

\* int -> float; exact, an int of the model having fewer than 53 bits
float(n) == FNorm(n < 0, BigOfNat(IF n < 0 THEN -n ELSE n), 0)

float_neg(a) == IF a.man = << >> THEN a ELSE [a EXCEPT !.neg = ~a.neg]

float_abs(a) == [a EXCEPT !.neg = FALSE]

Min(x, y) == IF x < y THEN x ELSE y

\* the sum of (-1)^an * A * 2^e and (-1)^bn * B * 2^e, c the order of A and B
AddOut(an, A, bn, B, e, c) ==
    FRound(IF c >= 0 THEN an ELSE bn,
           IF an = bn THEN BigAdd(A, B)
           ELSE IF c >= 0 THEN BigSub(A, B) ELSE BigSub(B, A),
           e)

AddMag(an, A, bn, B, e) ==
    AddOut(an, A, bn, B, e, IF an = bn THEN 1 ELSE BigCmp(A, B))

AddAt(a, b, e) ==
    AddMag(a.neg, BigShl(a.man, a.exp - e), b.neg, BigShl(b.man, b.exp - e), e)

float_add(a, b) ==
    IF a.man = << >> THEN b
    ELSE IF b.man = << >> THEN a
    ELSE AddAt(a, b, Min(a.exp, b.exp))

float_sub(a, b) == float_add(a, float_neg(b))

float_mul(a, b) == FRound(a.neg # b.neg, BigMul(a.man, b.man), a.exp + b.exp)

\* the quotient qr.q with a sticky bit for the remainder qr.r, rounded once
DivRound(neg, qr, e) ==
    FRound(neg,
           BigAdd(BigShl(qr.q, 1), IF qr.r = << >> THEN << >> ELSE <<1>>),
           e)

DivAt(a, b, s) ==
    DivRound(a.neg # b.neg, BigDivMod(BigShl(a.man, s), b.man),
             a.exp - b.exp - s - 1)

\* a / b for b # 0: the exact quotient to 56 or more bits with a sticky bit
\* for the remainder, rounded once; a zero divisor is ZeroDivisionError and
\* is handled by the callers
float_truediv(a, b) ==
    IF a.man = << >> THEN FZero
    ELSE DivAt(a, b, Max0(56 + BitLen(b.man) - BitLen(a.man)))

\* x ** e for a float x and an int e >= 0: the exact power, rounded once
float_pow(x, e) ==
    FRound(x.neg /\ e % 2 = 1, BigPow(x.man, e), x.exp * e)

Signed(neg, c) == IF neg THEN -c ELSE c

CmpAt(a, b, e) ==
    Signed(a.neg, BigCmp(BigShl(a.man, a.exp - e), BigShl(b.man, b.exp - e)))

\* -1, 0 or 1 as a < b, a = b, a > b
float_cmp(a, b) ==
    IF a.man = << >> THEN (IF b.man = << >> THEN 0 ELSE Signed(~b.neg, 1))
    ELSE IF b.man = << >> \/ a.neg # b.neg THEN Signed(a.neg, 1)
    ELSE CmpAt(a, b, Min(a.exp, b.exp))

float_lt(a, b) == float_cmp(a, b) < 0
float_le(a, b) == float_cmp(a, b) <= 0
float_ge(a, b) == float_cmp(a, b) >= 0

\* int(x): truncation toward zero
int(x) ==
    Signed(x.neg, BigToNat(IF x.exp >= 0 THEN BigShl(x.man, x.exp)
                           ELSE BigShr(x.man, -x.exp)))

\* round(x): nearest int, an exact half going to the even neighbour
round(x) ==
    IF x.exp >= 0 THEN int(x)
    ELSE Signed(x.neg, BigToNat(RoundShr(x.man, -x.exp)))

\* a decimal literal num/den (den a power of ten): the float nearest to it
literal(num, den) == float_truediv(float(num), float(den))

(***************************************************************************)
(* The script.  Its module-level names are the state: the experiment       *)
(* constants and the two candidate lists are fixed by Init (the claims     *)
(* range over them), the grids and labels are filled in as the script's    *)
(* top-level statements run in order.                                      *)
(***************************************************************************)
VARIABLES
    FACES_PER_TRIAL,   \* faces per trial panel
    SEC_PER_TRIAL,     \* seconds per trial
    face_options,      \* candidate N values, one heatmap row each
    exposure_options,  \* candidate E values, one heatmap column each
    trials_grid,       \* [row][col] -> float
    duration_grid,     \* [row][col] -> float
    p_raw,             \* [col] -> float, p_at_least_one(e) before scaling
    p1_values,         \* [col] -> float, P(>=1) in percent
    vmax,              \* the heatmap normalisation's upper end
    i,                 \* row-label loop: rows labelled so far
    dev,               \* row-label loop: minority_deviation(n) of the row
    dev_col,           \* row-label loop: colour of the row's sub-label
    bar_colors,        \* [col] -> colour of the P(>=1) bar
    norm_grid,         \* [row][col] -> norm(d) of the cell's duration
    txt_color,         \* [row][col] -> colour of the cell's annotation
    pc,                \* the statement the script is at
    error              \* the exception that ended the script, or "none"

\* firebase_to_csv.py: the loaded export and the table each file is written
\* from
VARIABLES
    firebase_data,     \* the participants node, in file order: [id, pdata] items
    df_participants,   \* participants.csv
    df_demographics,   \* demographics.csv
    df_trials,         \* [phase] -> phase<phase>_trials.csv
    df_surveys         \* surveys.csv

export_vars == <<firebase_data, df_participants, df_demographics, df_trials,
                 df_surveys>>

\* generate_colored_faces.py: the files of the two directories
VARIABLES
    fg_faces,          \* the names of the files in INPUT_DIR
    faces              \* the files saved to OUTPUT_DIR: [path, source, color]

compose_vars == <<fg_faces, faces>>

\* generate_faces.py: the design matrix, main's tally and the working
\* directory
VARIABLES
    design_df,         \* the rows of the design matrix so far
    race,              \* create_design_matrix: position in races of the next race
    face_id,           \* create_design_matrix: number of the next face
    idx,               \* main: index of the row being processed
    success_count,     \* main: faces generated
    failed_faces,      \* main: ids of the faces that failed, in order
    files,             \* the names of the files in WORKING_DIR
    ran,               \* generate_single_face: outcome of each command run so far
    success            \* what generate_single_face returned

generate_vars == <<design_df, race, face_id, idx, success_count, failed_faces, files,
                   ran, success>>

\* the state of the scripts other than design_parameter_matrix.py
other_scripts == <<export_vars, compose_vars, generate_vars>>

\* export_all not started
ExportIdle ==
    /\ firebase_data = << >>
    /\ df_participants = << >>
    /\ df_demographics = << >>
    /\ df_trials = << >>
    /\ df_surveys = << >>

\* generate_colored_faces.py not started
ComposeIdle ==
    /\ fg_faces = {}
    /\ faces = {}

\* generate_faces.py not started
GenerateIdle ==
    /\ design_df = << >>
    /\ race = 1
    /\ face_id = 1
    /\ idx = 0
    /\ success_count = 0
    /\ failed_faces = << >>
    /\ files = {}
    /\ ran = << >>
    /\ success = FALSE

\* the other scripts not started
OtherScriptsIdle == ExportIdle /\ ComposeIdle /\ GenerateIdle

design_vars == <<FACES_PER_TRIAL, SEC_PER_TRIAL, face_options, exposure_options,
                 trials_grid, duration_grid, p_raw, p1_values, vmax, dev,
                 dev_col, bar_colors, norm_grid, txt_color>>

vars == <<design_vars, i, pc, error, other_scripts>>

MINORITY_RATIO == literal(20, 100)
GOOD_RATIO     == literal(70, 100)

n_rows == Len(face_options)
n_cols == Len(exposure_options)

\* Python's a // b on ints (floor), b # 0
FloorDiv(a, b) == IF b > 0 THEN a \div b ELSE (-a) \div (-b)

\* total_trials with the quotient rounded to the nearest integer
total_trials_nearest(n, e) ==
    FloorDiv(2 * n * e + FACES_PER_TRIAL, 2 * FACES_PER_TRIAL)

\* total_trials with % typed for //
total_trials_remainder(n, e) == (n * e) % FACES_PER_TRIAL

total_trials(n, e) == FloorDiv(n * e, FACES_PER_TRIAL)

\* trials * sec // 60: whole minutes only
duration_of_floor(trials, sec) == float(FloorDiv(trials * sec, 60))

\* trials * sec / 60.0
duration_of(trials, sec) == float_truediv(float(trials * sec), float(60))

duration_min(n, e) == duration_of(total_trials(n, e), SEC_PER_TRIAL)

\* Expected clicks on a given face = E / FACES_PER_TRIAL
e_interactions(e) == float_truediv(float(e), float(FACES_PER_TRIAL))

\* p_at_least_one without the complement: P(never clicked)
p_never(e) ==
    float_pow(float_sub(float(1), float_truediv(float(1), float(FACES_PER_TRIAL))), e)

\* P(participant clicks a given face >= 1 time across all appearances)
p_at_least_one(e) ==
    float_sub(float(1),
              float_pow(float_sub(float(1),
                                  float_truediv(float(1), float(FACES_PER_TRIAL))),
                        e))

\* p_at_least_one(e) * 100
percent(p) == float_mul(p, float(100))

\* The values minority_deviation(n) can end with
None         == [tag |-> "None", val |-> FZero]
Some(x)      == [tag |-> "float", val |-> x]
ZeroDivision == [tag |-> "ZeroDivisionError", val |-> FZero]
Unset        == [tag |-> "unset", val |-> FZero]

\* The locals of minority_deviation, each from the minority count it is
\* computed from
good_exact(minority)   == float_mul(minority, GOOD_RATIO)
good_rounded(minority) == round(good_exact(minority))
actual_ratio(minority) == float_truediv(float(good_rounded(minority)), minority)

\* The statements of minority_deviation after the integer test
deviation_unchecked(minority) ==
    IF minority = FZero THEN ZeroDivision
    ELSE Some(float_mul(float_sub(actual_ratio(minority), GOOD_RATIO), float(100)))

\* The statements of minority_deviation after minority = n * MINORITY_RATIO
deviation(minority) ==
    IF minority # float(int(minority)) THEN None
    ELSE deviation_unchecked(minority)

minority_of(n)     == float_mul(float(n), MINORITY_RATIO)
good_exact_of(n)   == good_exact(minority_of(n))
good_rounded_of(n) == good_rounded(minority_of(n))
actual_ratio_of(n) == actual_ratio(minority_of(n))

\* minority_deviation without the test for an integer minority count
minority_deviation_unchecked(n) == deviation_unchecked(minority_of(n))

\* Deviation (pp) of rounded minority good-face count from GOOD_RATIO.
\* None when the 80/20 split doesn't yield an integer minority count.
minority_deviation(n) == deviation(minority_of(n))

\* row_label_color with the upper bound of the middle band exclusive
row_label_color_strict(d) ==
    IF d = None THEN "#cc0000"
    ELSE IF float_lt(float_abs(d.val), literal(1, 100)) THEN "#27ae60"
    ELSE IF float_lt(float_abs(d.val), float(2)) THEN "#e67e22"
    ELSE "#c0392b"

\* Colour of the row sub-label, chosen from dev
row_label_color(d) ==
    IF d = None THEN "#cc0000"
    ELSE IF float_lt(float_abs(d.val), literal(1, 100)) THEN "#27ae60"
    ELSE IF float_le(float_abs(d.val), float(2)) THEN "#e67e22"
    ELSE "#c0392b"

\* bar_color with exclusive thresholds
bar_color_strict(p) ==
    IF float_lt(float(95), p) THEN "#2ecc71"
    ELSE IF float_lt(float(85), p) THEN "#f39c12"
    ELSE "#e74c3c"

\* Colour of one P(>=1) bar, chosen from the percentage p
bar_color(p) ==
    IF float_ge(p, float(95)) THEN "#2ecc71"
    ELSE IF float_ge(p, float(85)) THEN "#f39c12"
    ELSE "#e74c3c"

\* The candidate lists and constants the script is written with
DefaultFaceOptions     == <<20, 40, 60, 80, 100>>
DefaultExposureOptions == <<4, 6, 8, 10, 12, 16, 20>>
DefaultFacesPerTrial   == 4
DefaultSecPerTrial     == 5

\* The script at its first statement, its inputs drawn from the given sets
Start(Faces, Exposures, PerTrial, Seconds) ==
    /\ face_options \in Faces
    /\ exposure_options \in Exposures
    /\ FACES_PER_TRIAL \in PerTrial
    /\ SEC_PER_TRIAL \in Seconds
    /\ trials_grid = << >>
    /\ duration_grid = << >>
    /\ p_raw = << >>
    /\ p1_values = << >>
    /\ vmax = FZero
    /\ i = 0
    /\ dev = Unset
    /\ dev_col = ""
    /\ bar_colors = << >>
    /\ norm_grid = << >>
    /\ txt_color = << >>
    /\ pc = "grids"
    /\ error = "none"
    /\ OtherScriptsIdle

RECURSIVE FloatMaxOf(_, _)
FloatMaxOf(xs, best) ==
    IF xs = << >> THEN best
    ELSE FloatMaxOf(Tail(xs), IF float_lt(best, Head(xs)) THEN Head(xs) ELSE best)

RECURSIVE Flatten(_)
Flatten(rows) == IF rows = << >> THEN << >> ELSE Head(rows) \o Flatten(Tail(rows))

\* ndarray.max() of a grid that has elements
GridMax(grid) == FloatMaxOf(Tail(Flatten(grid)), Head(Flatten(grid)))

\* Build grids: trials_grid, duration_grid, p1_values.  With
\* FACES_PER_TRIAL = 0 the first call of total_trials or p_at_least_one
\* raises ZeroDivisionError; over an empty exposure list no call is made.
BuildGrids ==
    /\ pc = "grids"
    /\ IF FACES_PER_TRIAL = 0 /\ n_cols > 0
       THEN /\ pc' = "error"
            /\ error' = "ZeroDivisionError"
            /\ UNCHANGED <<trials_grid, duration_grid, p_raw, p1_values>>
       ELSE /\ trials_grid' =
                 [r \in 1..n_rows |->
                    [c \in 1..n_cols |->
                       float(total_trials(face_options[r], exposure_options[c]))]]
            /\ duration_grid' =
                 [r \in 1..n_rows |->
                    [c \in 1..n_cols |->
                       duration_min(face_options[r], exposure_options[c])]]
            /\ p_raw' = [c \in 1..n_cols |-> p_at_least_one(exposure_options[c])]
            /\ p1_values' = [c \in 1..n_cols |-> percent(p_raw'[c])]
            /\ pc' = "heatmap"
            /\ error' = error
    /\ UNCHANGED other_scripts
    /\ UNCHANGED <<FACES_PER_TRIAL, SEC_PER_TRIAL, face_options, exposure_options,
                   vmax, i, dev, dev_col, bar_colors, norm_grid, txt_color>>

\* Main heatmap: norm = Normalize(vmin=0, vmax=duration_grid.max() * 1.05).
\* max() of an array without elements raises ValueError.
Heatmap ==
    /\ pc = "heatmap"
    /\ IF n_rows = 0 \/ n_cols = 0
       THEN /\ pc' = "error"
            /\ error' = "ValueError"
            /\ vmax' = vmax
       ELSE /\ vmax' = float_mul(GridMax(duration_grid), literal(105, 100))
            /\ pc' = "rows"
            /\ error' = error
    /\ UNCHANGED other_scripts
    /\ UNCHANGED <<FACES_PER_TRIAL, SEC_PER_TRIAL, face_options, exposure_options,
                   trials_grid, duration_grid, p_raw, p1_values, i, dev, dev_col,
                   bar_colors, norm_grid, txt_color>>

\* dev = d, or the exception that d stands for
AssignDeviation(d) ==
    IF d = ZeroDivision
    THEN /\ pc' = "error"
         /\ error' = "ZeroDivisionError"
         /\ dev' = dev
    ELSE /\ dev' = d
         /\ pc' = "label"
         /\ error' = error

\* Row-label loop, first statement of an iteration:
\* dev = minority_deviation(n)
RowDeviation ==
    /\ pc = "rows"
    /\ AssignDeviation(minority_deviation(face_options[i + 1]))
    /\ UNCHANGED other_scripts
    /\ UNCHANGED <<FACES_PER_TRIAL, SEC_PER_TRIAL, face_options, exposure_options,
                   trials_grid, duration_grid, p_raw, p1_values, vmax, i, dev_col,
                   bar_colors, norm_grid, txt_color>>

\* Row-label loop, rest of the iteration: the sub-label's colour from dev
RowLabel ==
    /\ pc = "label"
    /\ dev_col' = row_label_color(dev)
    /\ i' = i + 1
    /\ pc' = IF i + 1 = n_rows THEN "cells" ELSE "rows"
    /\ UNCHANGED other_scripts
    /\ UNCHANGED <<FACES_PER_TRIAL, SEC_PER_TRIAL, face_options, exposure_options,
                   trials_grid, duration_grid, p_raw, p1_values, vmax, dev,
                   bar_colors, norm_grid, txt_color, error>>

\* norm(d) as a percentage
norm_percent(d) ==
    IF vmax = FZero THEN FZero
    ELSE float_mul(float_truediv(d, vmax), float(100))

\* norm(d) of norm = Normalize(vmin=0, vmax=vmax): matplotlib's Normalize
\* returns 0 when vmin == vmax and (d - vmin) / (vmax - vmin) when
\* vmin < vmax; vmin > vmax is a ValueError, handled by the caller
norm(d) ==
    IF vmax = FZero THEN FZero
    ELSE float_truediv(float_sub(d, float(0)), float_sub(vmax, float(0)))

\* Colour of a cell's annotation, chosen from x = norm(d)
text_color(x) == IF float_lt(literal(55, 100), x) THEN "white" ELSE "#1a1a1a"

\* the annotation colours of the grid whose normalised durations are shade
AnnotateWith(shade) ==
    /\ norm_grid' = shade
    /\ txt_color' = [r \in 1..n_rows |->
                        [c \in 1..n_cols |-> text_color(shade[r][c])]]

\* Cell annotations: the loop over all cells, each annotated in a colour
\* chosen from norm(d).  Normalize raises ValueError for vmax < vmin = 0.
Annotate ==
    /\ pc = "cells"
    /\ IF vmax.neg
       THEN /\ pc' = "error"
            /\ error' = "ValueError"
            /\ UNCHANGED <<norm_grid, txt_color>>
       ELSE /\ AnnotateWith([r \in 1..n_rows |->
                               [c \in 1..n_cols |-> norm(duration_grid[r][c])]])
            /\ pc' = "bars"
            /\ error' = error
    /\ UNCHANGED other_scripts
    /\ UNCHANGED <<FACES_PER_TRIAL, SEC_PER_TRIAL, face_options, exposure_options,
                   trials_grid, duration_grid, p_raw, p1_values, vmax, i, dev,
                   dev_col, bar_colors>>

\* P(>=1) bar chart: one colour per column; the figure is saved after it
BarColors ==
    /\ pc = "bars"
    /\ bar_colors' = [c \in DOMAIN p1_values |-> bar_color(p1_values[c])]
    /\ pc' = "done"
    /\ UNCHANGED other_scripts
    /\ UNCHANGED <<FACES_PER_TRIAL, SEC_PER_TRIAL, face_options, exposure_options,
                   trials_grid, duration_grid, p_raw, p1_values, vmax, i, dev,
                   dev_col, norm_grid, txt_color, error>>

Next == BuildGrids \/ Heatmap \/ RowDeviation \/ RowLabel \/ Annotate \/ BarColors

(***************************************************************************)
(* Specifications: the same script over different input families           *)
(***************************************************************************)
MaxFaces      == 3
MaxExposures  == 3
MaxPerTrial   == 3
MaxSeconds    == 2

\* Non-empty lists of at most two values of S
Lists(S) == {<<x>> : x \in S} \cup {<<x, y>> : x \in S, y \in S}

\* The script as written, and the script on small candidate lists, with every
\* small value of the two constants
Init ==
    Start({DefaultFaceOptions} \cup Lists(1..MaxFaces),
          {DefaultExposureOptions} \cup Lists(1..MaxExposures),
          {DefaultFacesPerTrial} \cup 1..MaxPerTrial,
          {DefaultSecPerTrial} \cup 1..MaxSeconds)

Spec == Init /\ [][Next]_vars

(***************************************************************************)
(* Exact comparison of a float with a rational, for stating the claims     *)
(* without going through float arithmetic.                                 *)
(***************************************************************************)
RECURSIVE BigMulNat(_, _)
\* a * n for any natural n
BigMulNat(a, n) ==
    IF n < Base THEN BigMulSmall(a, n)
    ELSE BigAdd(BigMulSmall(a, n % Base),
                ShiftLimbs(BigMulNat(a, n \div Base), 1))

Abs(x) == IF x < 0 THEN -x ELSE x
Sign(x) == IF x < 0 THEN -1 ELSE IF x > 0 THEN 1 ELSE 0

\* sign of x * den - num for a float x, an integer num and a natural den > 0:
\* -1, 0 or 1 as x < num/den, x = num/den, x > num/den
FloatCmpRat(x, num, den) ==
    IF x.man = << >> THEN -Sign(num)
    ELSE IF num = 0 \/ x.neg # (num < 0) THEN (IF x.neg THEN -1 ELSE 1)
    ELSE LET L == BigMulNat(x.man, den)
             R == BigOfNat(Abs(num))
             c == IF x.exp >= 0 THEN BigCmp(BigShl(L, x.exp), R)
                  ELSE BigCmp(L, BigShl(R, -x.exp))
         IN  IF x.neg THEN -c ELSE c

(***************************************************************************)
(* Claims about the grid of derived metrics (specification Spec)           *)
(***************************************************************************)
\* the state BuildGrids leaves; no later statement assigns the grids
GridsBuilt == pc = "heatmap"

Rows == 1..n_rows
Cols == 1..n_cols

\* C1: for all positive N, E and items_per_trial the trial count of the cell
\* is floor(N*E / items_per_trial): it is a whole number t with
\* t*k <= N*E < (t+1)*k, so it is strictly below N*E/k whenever N*E is not a
\* multiple of k, and is neither the nearest integer nor the ceiling.
TotalTrialsIsFloor ==
    GridsBuilt =>
        \A r \in Rows, c \in Cols :
            LET n == face_options[r]
                e == exposure_options[c]
                k == FACES_PER_TRIAL
                t == int(trials_grid[r][c])
            IN  /\ trials_grid[r][c] = float(t)
                /\ t * k <= n * e
                /\ n * e < (t + 1) * k
                /\ (n * e) % k # 0 => t * k < n * e

\* C1 witness: a built cell whose exact quotient has a fractional part of at
\* least one half, where nearest and ceiling would both give more trials
TotalTrialsTruncates ==
    /\ GridsBuilt
    /\ \E r \in Rows, c \in Cols :
           LET ne == face_options[r] * exposure_options[c]
           IN  /\ 2 * (ne % FACES_PER_TRIAL) >= FACES_PER_TRIAL
               /\ int(trials_grid[r][c]) >= 1
               /\ int(trials_grid[r][c]) * FACES_PER_TRIAL < ne

\* C8: within one grid, a cell with no smaller N and no smaller E never has
\* fewer trials
TotalTrialsMonotone ==
    GridsBuilt =>
        \A r1 \in Rows, r2 \in Rows, c1 \in Cols, c2 \in Cols :
            (face_options[r1] <= face_options[r2]
             /\ exposure_options[c1] <= exposure_options[c2])
            => float_le(trials_grid[r1][c1], trials_grid[r2][c2])

\* C8 witness: a built grid with two cells, one larger in both N and E and
\* with strictly more trials
TotalTrialsGrows ==
    /\ GridsBuilt
    /\ \E r1 \in Rows, r2 \in Rows, c1 \in Cols, c2 \in Cols :
           /\ face_options[r1] < face_options[r2]
           /\ exposure_options[c1] < exposure_options[c2]
           /\ float_lt(trials_grid[r1][c1], trials_grid[r2][c2])

\* the float x is the rational num/den rounded once: |x*den - num| * 2^53 <= |num|
IsRounded(x, num, den) ==
    IF num = 0 THEN x = FZero
    ELSE /\ x.neg = (num < 0)
         /\ LET X == BigMulNat(x.man, den)
                T == BigOfNat(Abs(num))
                sh == IF x.exp < 0 THEN -x.exp ELSE 0
                XX == BigShl(X, x.exp + sh)
                TT == BigShl(T, sh)
                D  == IF BigCmp(XX, TT) >= 0 THEN BigSub(XX, TT) ELSE BigSub(TT, XX)
            IN  BigCmp(BigShl(D, 53), TT) <= 0

\* C9: every cell's duration is total_trials * seconds_per_trial / 60 (as a
\* float: that quotient rounded once), the trial count does not involve
\* seconds_per_trial, and the same cell computed with seconds_per_trial
\* doubled lasts exactly twice as long; with 4 faces per trial and 5 seconds
\* per trial the cell N=100, E=12 has 300 trials and lasts 25 minutes.
DurationProportional ==
    GridsBuilt =>
        \A r \in Rows, c \in Cols :
            LET n == face_options[r]
                e == exposure_options[c]
                t == int(trials_grid[r][c])
                d == duration_grid[r][c]
            IN  /\ IsRounded(d, t * SEC_PER_TRIAL, 60)
                /\ (t * SEC_PER_TRIAL) % 60 = 0
                       => d = float((t * SEC_PER_TRIAL) \div 60)
                /\ duration_of(t, 2 * SEC_PER_TRIAL) = float_mul(float(2), d)
                /\ (n = 100 /\ e = 12 /\ FACES_PER_TRIAL = 4 /\ SEC_PER_TRIAL = 5)
                       => (t = 300 /\ d = float(25))

\* C9 witness: the built grid of the script as written (cell N=100, E=12 of
\* 300 trials and 25 minutes) next to a cell whose duration is no whole
\* number of minutes
DurationExample ==
    /\ GridsBuilt
    /\ FACES_PER_TRIAL = 4
    /\ SEC_PER_TRIAL = 5
    /\ \E r \in Rows, c \in Cols :
           /\ face_options[r] = 100
           /\ exposure_options[c] = 12
           /\ duration_grid[r][c] = float(25)
    /\ \E r \in Rows, c \in Cols : duration_grid[r][c].exp < 0

\* The tiers the colours stand for
ProbabilityTier(col) ==
    CASE col = "#2ecc71" -> "HIGH"
      [] col = "#f39c12" -> "MEDIUM"
      [] col = "#e74c3c" -> "LOW"

DeviationTier(col) ==
    CASE col = "#cc0000" -> "UNSATISFIABLE"
      [] col = "#27ae60" -> "EXACT"
      [] col = "#e67e22" -> "MINOR"
      [] col = "#c0392b" -> "MAJOR"

\* the design point of the example: 4 faces per trial, column E = 12, with
\* prob_at_least_one = 1 - (3/4)^12 = (4^12 - 3^12) / 4^12, about 0.9683
ExampleColumn(c) ==
    /\ exposure_options[c] = 12
    /\ p_raw[c] = FNorm(FALSE, BigOfNat(4^12 - 3^12), -24)
    /\ FloatCmpRat(p_raw[c], 9683, 10000) > 0
    /\ FloatCmpRat(p_raw[c], 9684, 10000) < 0

\* C6 as stated: with 4 faces per trial the column E = 12 has
\* prob_at_least_one = 1 - (3/4)^12 (about 0.9683) and its tier is MEDIUM
ExampleProbabilityMedium ==
    (pc = "done" /\ FACES_PER_TRIAL = 4) =>
        \A c \in Cols :
            exposure_options[c] = 12 =>
                /\ ExampleColumn(c)
                /\ ProbabilityTier(bar_colors[c]) = "MEDIUM"

\* C6 amended: with 4 faces per trial the column E = 12 has
\* prob_at_least_one = 1 - (3/4)^12 (about 0.9683) and its tier is HIGH,
\* 0.9683 being above the 0.95 threshold
ExampleProbabilityHigh ==
    (pc = "done" /\ FACES_PER_TRIAL = 4) =>
        \A c \in Cols :
            exposure_options[c] = 12 =>
                /\ ExampleColumn(c)
                /\ ProbabilityTier(bar_colors[c]) = "HIGH"

\* C6 witness: the script as written has finished, with the row N = 100 and
\* the column E = 12 coloured
ExampleProbabilityReached ==
    /\ pc = "done"
    /\ FACES_PER_TRIAL = 4
    /\ \E r \in Rows : face_options[r] = 100
    /\ \E c \in Cols : exposure_options[c] = 12 /\ bar_colors[c] = "#2ecc71"

(***************************************************************************)
(* Claims about the minority feasibility of one population size            *)
(* (specification SpecFeasibility: the script as written, on a one-row     *)
(* candidate list <<N>> for every N up to MaxPopulation)                   *)
(***************************************************************************)
MaxPopulation == 230

InitFeasibility ==
    Start({<<n>> : n \in 1..MaxPopulation},
          {DefaultExposureOptions},
          {DefaultFacesPerTrial},
          {DefaultSecPerTrial})

SpecFeasibility == InitFeasibility /\ [][Next]_vars

\* the row whose deviation dev holds
DevRow == IF pc = "label" THEN i + 1 ELSE i

\* N * minority_share is a whole number, minority_share being 0.20 = 20/100
MinorityIsWhole(n) == (n * 20) % 100 = 0

\* C2: the deviation of a row is defined (a float) if and only if
\* N * minority_share is a whole number; otherwise the row is the distinct
\* UNSATISFIABLE outcome with the deviation None, not 0 and not a number.
DeviationDefinedIffWhole ==
    dev # Unset =>
        LET n == face_options[DevRow]
        IN  /\ dev.tag \in {"float", "None"}
            /\ dev.tag = "float" <=> MinorityIsWhole(n)
            /\ ~MinorityIsWhole(n) =>
                   /\ dev = None
                   /\ dev # Some(FZero)
                   /\ pc # "label" => DeviationTier(dev_col) = "UNSATISFIABLE"
            /\ (MinorityIsWhole(n) /\ pc # "label")
                   => DeviationTier(dev_col) # "UNSATISFIABLE"

\* C2 witness: a finished run whose row has no whole minority count and is
\* labelled UNSATISFIABLE with dev None
UnsatisfiableRowReached ==
    /\ pc = "done"
    /\ ~MinorityIsWhole(face_options[DevRow])
    /\ dev = None
    /\ dev_col = "#cc0000"

\* the integer nearest to num/den (den > 0, num >= 0), an exact half going to
\* the even neighbour
NearestEven(num, den) ==
    LET q == num \div den
        r == num % den
    IN  IF 2 * r > den THEN q + 1
        ELSE IF 2 * r < den THEN q
        ELSE IF q % 2 = 0 THEN q ELSE q + 1

\* C3 as stated, granting the float result a rounding noise below 0.01 pp:
\* for every N whose minority count m = N * 0.20 is a positive whole number,
\* good_count_rounded is the integer nearest to m * 0.70 (an exact half going
\* to the even integer) and deviation_pp is (good_count_rounded / m - 0.70) *
\* 100; N = 100 gives m = 20, good_count_rounded = 14 and deviation_pp = 0.
GoodCountNearestEven ==
    (pc = "label" /\ MinorityIsWhole(face_options[DevRow])) =>
        LET n    == face_options[DevRow]
            m    == (n * 20) \div 100
            g    == NearestEven(m * 70, 100)
            dnum == 100 * g - 70 * m
        IN  /\ minority_of(n) = float(m)
            /\ good_rounded_of(n) = g
            /\ dev.tag = "float"
            /\ FloatCmpRat(dev.val, 100 * dnum - m, 100 * m) > 0
            /\ FloatCmpRat(dev.val, 100 * dnum + m, 100 * m) < 0
            /\ n = 100 => (m = 20 /\ g = 14 /\ dev.val = FZero)

(***************************************************************************)
(* Claims about the two colour choices as functions of their argument      *)
(* (specification SpecTiers: the row-label statement applied to any        *)
(* deviation and the bar-colour statement applied to any probability, the  *)
(* arguments drawn from a grid of decimals, from the floats next to the    *)
(* thresholds and from the values the script itself computes)              *)
(***************************************************************************)
\* deviations up to MaxDeviation thousandths of a pp, probabilities
\* j / ProbSteps
MaxDeviation == 2100
ProbSteps == 1000

\* the floats next above and next below a positive float
NextUp(x) ==
    LET sh == 53 - BitLen(x.man)
    IN  FRound(FALSE, BigAdd(BigShl(x.man, sh), <<1>>), x.exp - sh)

NextDown(x) ==
    LET sh == IF x.man = <<1>> THEN 53 ELSE 53 - BitLen(x.man)
    IN  FRound(FALSE, BigSub(BigShl(x.man, sh), <<1>>), x.exp - sh)

Around(x) == {NextDown(x), x, NextUp(x)}

DeviationInputs ==
    {None}
    \cup {Some(literal(h, 1000)) : h \in -MaxDeviation..MaxDeviation}
    \cup {Some(x) : x \in Around(literal(1, 100)) \cup Around(float(2))}
    \cup {Some(float_neg(x)) : x \in Around(literal(1, 100)) \cup Around(float(2))}
    \cup ({minority_deviation(n) : n \in 1..MaxPopulation} \ {ZeroDivision})

ProbabilityInputs ==
    {literal(j, ProbSteps) : j \in 0..ProbSteps}
    \cup Around(literal(95, 100)) \cup Around(literal(85, 100))
    \cup {literal(9499999, 10000000), literal(8499999, 10000000)}

\* the script inside its row-label loop with any deviation in dev, or before
\* its bar chart with any probability scaled to percent in p1_values
InitTiers ==
    /\ face_options = DefaultFaceOptions
    /\ exposure_options = DefaultExposureOptions
    /\ FACES_PER_TRIAL = DefaultFacesPerTrial
    /\ SEC_PER_TRIAL = DefaultSecPerTrial
    /\ trials_grid = << >>
    /\ duration_grid = << >>
    /\ vmax = FZero
    /\ dev_col = ""
    /\ bar_colors = << >>
    /\ norm_grid = << >>
    /\ txt_color = << >>
    /\ error = "none"
    /\ OtherScriptsIdle
    /\ \/ /\ pc = "label"
          /\ i = 0
          /\ dev \in DeviationInputs
          /\ p_raw = << >>
          /\ p1_values = << >>
       \/ /\ pc = "bars"
          /\ i = n_rows
          /\ dev = Unset
          /\ p_raw \in {<<p>> : p \in ProbabilityInputs}
          /\ p1_values = <<percent(p_raw[1])>>

NextTiers == RowLabel \/ BarColors

SpecTiers == InitTiers /\ [][NextTiers]_vars

\* C4: every feasibility result gets exactly one tier: UNSATISFIABLE for the
\* absent deviation (before any numeric test), otherwise EXACT when
\* |dev| < 0.01, MINOR when 0.01 <= |dev| <= 2 (2 itself is MINOR) and MAJOR
\* when |dev| > 2, the comparisons being exact comparisons of the float dev
\* with 1/100 and 2.
DeviationTiers ==
    dev_col # "" =>
        LET tier == DeviationTier(dev_col)
            a    == float_abs(dev.val)
        IN  /\ tier \in {"UNSATISFIABLE", "EXACT", "MINOR", "MAJOR"}
            /\ tier = "UNSATISFIABLE" <=> dev = None
            /\ dev # None =>
                 /\ tier = "EXACT" <=> FloatCmpRat(a, 1, 100) < 0
                 /\ tier = "MINOR" <=> (FloatCmpRat(a, 1, 100) >= 0
                                         /\ FloatCmpRat(a, 2, 1) <= 0)
                 /\ tier = "MAJOR" <=> FloatCmpRat(a, 2, 1) > 0

\* C4 witness: a deviation of exactly 2 pp has been labelled MINOR
DeviationTwoIsMinor ==
    /\ dev = Some(float(2))
    /\ dev_col = "#e67e22"

\* C5: every probability p in [0,1] gets exactly one of three tiers: HIGH when
\* p >= 0.95, MEDIUM when 0.85 <= p < 0.95, LOW when p < 0.85 (0.95 and 0.85
\* being the floats those literals denote), so 0.95 is HIGH and 0.85 MEDIUM.
ProbabilityTiers ==
    bar_colors # << >> =>
        \A c \in DOMAIN bar_colors :
            LET tier == ProbabilityTier(bar_colors[c])
                p    == p_raw[c]
            IN  /\ tier \in {"HIGH", "MEDIUM", "LOW"}
                /\ tier = "HIGH" <=> float_ge(p, literal(95, 100))
                /\ tier = "MEDIUM" <=> (float_ge(p, literal(85, 100))
                                         /\ float_lt(p, literal(95, 100)))
                /\ tier = "LOW" <=> float_lt(p, literal(85, 100))
                /\ p = literal(95, 100) => tier = "HIGH"
                /\ p = literal(9499999, 10000000) => tier = "MEDIUM"
                /\ p = literal(85, 100) => tier = "MEDIUM"
                /\ p = literal(8499999, 10000000) => tier = "LOW"

\* C5 witness: the probability 0.95 itself has been coloured HIGH
ProbabilityBoundaryIsHigh ==
    /\ p_raw = <<literal(95, 100)>>
    /\ bar_colors = <<"#2ecc71">>

(***************************************************************************)
(* Claims about p_at_least_one over every exposure count (specification    *)
(* SpecExposure: two consecutive exposure counts as the columns, any       *)
(* number of faces per trial)                                              *)
(***************************************************************************)
MaxExposure == 56
MaxItems    == 4

InitExposure ==
    Start({DefaultFaceOptions},
          {<<e, e + 1>> : e \in 1..MaxExposure},
          1..MaxItems,
          {DefaultSecPerTrial})

SpecExposure == InitExposure /\ [][Next]_vars

\* |x - (k^E - (k-1)^E) / k^E| <= 10^-9 for a float x >= 0
NearExactProbability(x, k, E) ==
    LET Den == BigPow(BigOfNat(k), E)
        Num == BigSub(Den, BigPow(BigOfNat(k - 1), E))
        sh  == IF x.exp < 0 THEN -x.exp ELSE 0
        XX  == BigShl(BigMul(x.man, Den), x.exp + sh)
        NN  == BigShl(Num, sh)
        D   == IF BigCmp(XX, NN) >= 0 THEN BigSub(XX, NN) ELSE BigSub(NN, XX)
    IN  /\ ~x.neg
        /\ BigCmp(BigMul(D, BigOfNat(1000000000)), BigShl(Den, sh)) <= 0

\* C7: for every exposure count E >= 1 and k >= 1 faces per trial,
\* p_at_least_one(E) is 1 - ((k-1)/k)^E (here: to within 10^-9, which any
\* exact value satisfies), lies in [0,1], and for k > 1 is strictly greater
\* at a larger E.
ProbabilityExactAndIncreasing ==
    GridsBuilt =>
        /\ \A c \in Cols :
              /\ NearExactProbability(p_raw[c], FACES_PER_TRIAL, exposure_options[c])
              /\ float_le(FZero, p_raw[c])
              /\ float_le(p_raw[c], float(1))
        /\ FACES_PER_TRIAL > 1 =>
              \A c1, c2 \in Cols :
                  exposure_options[c1] < exposure_options[c2]
                      => float_lt(p_raw[c1], p_raw[c2])

(***************************************************************************)
(* Claims about inputs outside the design model's preconditions            *)
(* (specification SpecPre: constants and candidates that may be zero or    *)
(* negative, candidate lists that may be empty; exposure counts are not    *)
(* taken below zero)                                                       *)
(***************************************************************************)
MaxMagnitude == 2

InitPre ==
    Start({<< >>} \cup Lists(-MaxMagnitude..MaxMagnitude),
          {<< >>} \cup Lists(0..MaxMagnitude),
          {DefaultFacesPerTrial} \cup -MaxMagnitude..MaxMagnitude,
          {DefaultSecPerTrial} \cup -MaxMagnitude..MaxMagnitude)

SpecPre == InitPre /\ [][Next]_vars

PreconditionViolated ==
    \/ FACES_PER_TRIAL <= 0
    \/ SEC_PER_TRIAL <= 0
    \/ face_options = << >>
    \/ exposure_options = << >>
    \/ \E r \in Rows : face_options[r] <= 0
    \/ \E c \in Cols : exposure_options[c] <= 0

NothingProduced ==
    /\ trials_grid = << >>
    /\ duration_grid = << >>
    /\ p_raw = << >>
    /\ p1_values = << >>
    /\ vmax = FZero
    /\ dev = Unset
    /\ dev_col = ""
    /\ bar_colors = << >>
    /\ norm_grid = << >>
    /\ txt_color = << >>

\* C10: when a precondition is violated (a non-positive constant, a
\* non-positive N or E, an empty candidate list, FACES_PER_TRIAL = 0) the
\* script's first step ends in an error: it is never found past that step
\* other than failed, and no grid, deviation or colour has been produced.
PreconditionViolationFailsAtOnce ==
    PreconditionViolated =>
        /\ pc \in {"grids", "error"}
        /\ NothingProduced

(***************************************************************************)
(* Claims about the heatmap's normalised durations (specification Spec:    *)
(* non-empty lists of positive N and E, positive constants)                *)
(***************************************************************************)
\* the state Annotate leaves
CellsAnnotated == pc = "bars"

\* the float x is the quotient a / b of two positive floats rounded once:
\* |x * b - a| * 2^53 <= a
IsRoundedQuotient(x, a, b) ==
    LET e  == Min(x.exp + b.exp, a.exp)
        XX == BigShl(BigMul(x.man, b.man), x.exp + b.exp - e)
        TT == BigShl(a.man, a.exp - e)
        D  == IF BigCmp(XX, TT) >= 0 THEN BigSub(XX, TT) ELSE BigSub(TT, XX)
    IN  /\ ~x.neg
        /\ BigCmp(BigShl(D, 53), TT) <= 0

\* C11: on every grid built from non-empty lists of positive N and E with
\* positive constants the script does not fail, and once the cells are
\* annotated every cell has a normalised duration: the divisor is at least the
\* grid maximum (above it when that is positive); the value is
\* duration / divisor (that quotient rounded once; 0 for every cell when the
\* grid maximum is 0), lies in [0,1], and two cells' values are ordered as
\* their durations are.
NormalizedDuration ==
    /\ pc # "error"
    /\ error = "none"
    /\ CellsAnnotated =>
          /\ float_le(GridMax(duration_grid), vmax)
          /\ GridMax(duration_grid) # FZero
                => float_lt(GridMax(duration_grid), vmax)
          /\ \A r \in Rows : \A c \in Cols :
                /\ float_le(FZero, norm_grid[r][c])
                /\ float_le(norm_grid[r][c], float(1))
                /\ duration_grid[r][c] = FZero => norm_grid[r][c] = FZero
                /\ duration_grid[r][c] # FZero =>
                      IsRoundedQuotient(norm_grid[r][c], duration_grid[r][c], vmax)
          /\ \A r1, r2 \in Rows : \A c1, c2 \in Cols :
                float_cmp(norm_grid[r1][c1], norm_grid[r2][c2])
                    = float_cmp(duration_grid[r1][c1], duration_grid[r2][c2])

\* C11 witness: a grid whose every cell has no trial at all (N * E below the
\* faces per trial) has been annotated, every normalised duration being 0
AllZeroGridAnnotated ==
    /\ CellsAnnotated
    /\ vmax = FZero
    /\ \A r \in Rows : \A c \in Cols :
          /\ face_options[r] * exposure_options[c] < FACES_PER_TRIAL
          /\ trials_grid[r][c] = FZero
          /\ norm_grid[r][c] = FZero
          /\ txt_color[r][c] = "#1a1a1a"

(***************************************************************************)
(* firebase_to_csv.py.  A JSON object is a function from its keys to its   *)
(* values, << >> being the empty object and the empty array; the           *)
(* participants node is the sequence of its (id, record) items in file     *)
(* order.  A stored value is Some(x), Python's None is None, and a cell    *)
(* pandas fills in for a column a row lacks is NaN; to_csv writes None and *)
(* NaN as the empty string.                                                *)
(***************************************************************************)
NaN == [tag |-> "NaN", val |-> FZero]

MetadataFields ==
    {"internal_id", "prolific_pid", "study_id", "session_id", "condition_code",
     "condition", "majority_group", "p1_type", "p2_exposure", "timestamp",
     "debug_mode"}

SummaryFields ==
    {"phase1_score", "phase2_score", "total_score", "phase1_trials_count",
     "phase2_trials_count", "phase3_trials_count"}

TechnicalCheckFields ==
    {"images_loaded", "technical_difficulties", "technical_difficulties_details"}

UserFeedbackFields == {"clarity_rating", "length_rating", "suggestions"}

\* d.get(k, default)
dict_get(d, k, default) == IF k \in DOMAIN d THEN d[k] ELSE default

\* {**base, **d}: the keys of both, d's value where both have the key
unpack(base, d) ==
    [c \in DOMAIN base \cup DOMAIN d |-> IF c \in DOMAIN d THEN d[c] ELSE base[c]]

\* the columns of pd.DataFrame(rows): every key of every row
columns(rows) == UNION {DOMAIN rows[k] : k \in 1..Len(rows)}

\* pd.DataFrame(rows) for a list of dicts, on the columns cols
DataFrameOn(rows, cols) ==
    [k \in 1..Len(rows) |->
        [c \in cols |-> IF c \in DOMAIN rows[k] THEN rows[k][c] ELSE NaN]]

DataFrame(rows) == DataFrameOn(rows, columns(rows))

\* the row of flatten_participants for one participant
participant_row(participant_id, metadata, summary) ==
    [c \in {"participant_id"} \cup MetadataFields \cup SummaryFields |->
        IF c = "participant_id" THEN participant_id
        ELSE IF c \in MetadataFields THEN dict_get(metadata, c, None)
        ELSE dict_get(summary, c, None)]

flatten_participants(data) ==
    DataFrame([k \in 1..Len(data) |->
        participant_row(data[k].id, dict_get(data[k].pdata, "metadata", << >>),
                        dict_get(data[k].pdata, "summary", << >>))])

\* the rows of flatten_demographics for the items from position k on; an
\* empty or missing demographics object is falsy and gives no row
RECURSIVE demographics_rows(_, _)
demographics_rows(data, k) ==
    IF k > Len(data) THEN << >>
    ELSE (IF DOMAIN dict_get(data[k].pdata, "demographics", << >>) # {}
          THEN <<unpack([participant_id |-> data[k].id],
                        dict_get(data[k].pdata, "demographics", << >>))>>
          ELSE << >>) \o demographics_rows(data, k + 1)

flatten_demographics(data) == DataFrame(demographics_rows(data, 1))

PhaseKey == <<"phase1", "phase2", "phase3">>

\* the rows of one participant's trials of one phase
trial_rows(participant_id, phase_trials) ==
    [t \in 1..Len(phase_trials) |->
        unpack([participant_id |-> participant_id], phase_trials[t])]

\* the rows of flatten_trials for the items from position k on
RECURSIVE trials_rows(_, _, _)
trials_rows(data, phase, k) ==
    IF k > Len(data) THEN << >>
    ELSE trial_rows(data[k].id,
                    dict_get(dict_get(data[k].pdata, "trials", << >>),
                             PhaseKey[phase], << >>))
         \o trials_rows(data, phase, k + 1)

flatten_trials(data, phase) == DataFrame(trials_rows(data, phase, 1))

\* the row of flatten_surveys for one participant
survey_row(participant_id, technical_check, user_feedback) ==
    [c \in {"participant_id"} \cup TechnicalCheckFields \cup UserFeedbackFields |->
        IF c = "participant_id" THEN participant_id
        ELSE IF c \in TechnicalCheckFields THEN dict_get(technical_check, c, None)
        ELSE dict_get(user_feedback, c, None)]

survey_row_of(participant_id, survey_data) ==
    survey_row(participant_id, dict_get(survey_data, "technical_check", << >>),
               dict_get(survey_data, "user_feedback", << >>))

\* flatten_surveys with the guard of flatten_demographics: a record without
\* survey data gives no row
RECURSIVE surveys_rows_present(_, _)
surveys_rows_present(data, k) ==
    IF k > Len(data) THEN << >>
    ELSE (IF DOMAIN dict_get(data[k].pdata, "surveys", << >>) # {}
          THEN <<survey_row_of(data[k].id, data[k].pdata.surveys)>>
          ELSE << >>) \o surveys_rows_present(data, k + 1)

flatten_surveys_present(data) == DataFrame(surveys_rows_present(data, 1))

flatten_surveys(data) ==
    DataFrame([k \in 1..Len(data) |->
        survey_row_of(data[k].id, dict_get(data[k].pdata, "surveys", << >>))])

\* the design script's names before it has run
DesignIdle ==
    /\ face_options = DefaultFaceOptions
    /\ exposure_options = DefaultExposureOptions
    /\ FACES_PER_TRIAL = DefaultFacesPerTrial
    /\ SEC_PER_TRIAL = DefaultSecPerTrial
    /\ trials_grid = << >>
    /\ duration_grid = << >>
    /\ p_raw = << >>
    /\ p1_values = << >>
    /\ vmax = FZero
    /\ dev = Unset
    /\ dev_col = ""
    /\ bar_colors = << >>
    /\ norm_grid = << >>
    /\ txt_color = << >>

\* load_firebase_data: an export without participants is a ValueError
LoadData ==
    /\ pc = "load"
    /\ IF Len(firebase_data) = 0
       THEN pc' = "error" /\ error' = "ValueError"
       ELSE pc' = "export_participants" /\ error' = error
    /\ UNCHANGED <<design_vars, compose_vars, generate_vars, i, export_vars>>

ExportParticipants ==
    /\ pc = "export_participants"
    /\ df_participants' = flatten_participants(firebase_data)
    /\ pc' = "export_demographics"
    /\ UNCHANGED <<design_vars, compose_vars, generate_vars, i, error, firebase_data, df_demographics,
                   df_trials, df_surveys>>

ExportDemographics ==
    /\ pc = "export_demographics"
    /\ df_demographics' = flatten_demographics(firebase_data)
    /\ pc' = "export_phase1"
    /\ UNCHANGED <<design_vars, compose_vars, generate_vars, i, error, firebase_data, df_participants,
                   df_trials, df_surveys>>

PhaseLabel == <<"export_phase1", "export_phase2", "export_phase3">>

\* df_phase<phase> = flatten_trials(firebase_data, phase=<phase>)
ExportTrials(phase) ==
    /\ pc = PhaseLabel[phase]
    /\ df_trials' = Append(df_trials, flatten_trials(firebase_data, phase))
    /\ pc' = IF phase < 3 THEN PhaseLabel[phase + 1] ELSE "export_surveys"
    /\ UNCHANGED <<design_vars, compose_vars, generate_vars, i, error, firebase_data, df_participants,
                   df_demographics, df_surveys>>

ExportSurveys ==
    /\ pc = "export_surveys"
    /\ df_surveys' = flatten_surveys(firebase_data)
    /\ pc' = "done"
    /\ UNCHANGED <<design_vars, compose_vars, generate_vars, i, error, firebase_data, df_participants,
                   df_demographics, df_trials>>

NextExport ==
    \/ LoadData
    \/ ExportParticipants
    \/ ExportDemographics
    \/ \E phase \in 1..3 : ExportTrials(phase)
    \/ ExportSurveys

(***************************************************************************)
(* Exports of up to MaxParticipants records.  A record is complete, or     *)
(* lacks one section, one phase, or one or more fields of a section.       *)
(***************************************************************************)
MaxParticipants == 2
MaxTrials == 2

Stored(v) == Some(float(v))

Obj(S, v) == [f \in S |-> Stored(v)]

\* d without the key k
Without(d, k) == [f \in DOMAIN d \ {k} |-> d[f]]

\* the trial at position t; every second one was stored without a response
Trial(t) ==
    IF t % 2 = 1 THEN [trial_index |-> Stored(t), response |-> Stored(0)]
    ELSE [trial_index |-> Stored(t)]

\* a complete record with n stored trials in phase 1
FullRecord(n) ==
    [metadata     |-> Obj(MetadataFields, 1),
     summary      |-> Obj(SummaryFields, 2),
     demographics |-> Obj({"age", "gender"}, 3),
     surveys      |-> [technical_check |-> Obj(TechnicalCheckFields, 4),
                       user_feedback   |-> Obj(UserFeedbackFields, 5)],
     trials       |-> [phase1 |-> [t \in 1..n |-> Trial(t)],
                       phase2 |-> [t \in 1..MaxTrials - n |-> Trial(t)],
                       phase3 |-> <<Trial(1)>>]]

Sections == {"metadata", "summary", "demographics", "surveys", "trials"}

RecordsFrom(full) ==
    {Without(full, s) : s \in Sections}
        \cup {[full EXCEPT !.trials = Without(@, ph)] :
                  ph \in {"phase1", "phase2", "phase3"}}
        \cup {[full EXCEPT !.metadata = Without(@, f)] :
                  f \in {"condition", "timestamp"}}
        \cup {[full EXCEPT !.summary = Without(@, "total_score")],
              [full EXCEPT !.demographics = << >>],
              [full EXCEPT !.demographics = Without(@, "age")],
              [full EXCEPT !.surveys = Without(@, "technical_check")],
              [full EXCEPT !.surveys = Without(@, "user_feedback")],
              [full EXCEPT !.surveys.user_feedback = Without(@, "suggestions")],
              [metadata |-> full.metadata]}

Records == {FullRecord(n) : n \in 0..MaxTrials} \cup RecordsFrom(FullRecord(1))

ParticipantId == [k \in 1..MaxParticipants |-> ToString(k)]

Exports ==
    UNION {{[k \in 1..n |-> [id |-> ParticipantId[k], pdata |-> recs[k]]] :
                recs \in [1..n -> Records]} : n \in 0..MaxParticipants}

InitExport ==
    /\ DesignIdle
    /\ ComposeIdle
    /\ GenerateIdle
    /\ i = 0
    /\ error = "none"
    /\ pc = "load"
    /\ firebase_data \in Exports
    /\ df_participants = << >>
    /\ df_demographics = << >>
    /\ df_trials = << >>
    /\ df_surveys = << >>

SpecExport == InitExport /\ [][NextExport]_vars

(***************************************************************************)
(* C12  the export of records that lack fields or sections (SpecExport)    *)
(***************************************************************************)
\* the state export_all ends in
Exported == pc = "done" /\ firebase_data # << >>

\* what a record stores for a field of a section: None when the record has
\* no such section or the section no such field
StoredField(pdata, section, f) ==
    IF section \in DOMAIN pdata /\ f \in DOMAIN pdata[section]
    THEN pdata[section][f] ELSE None

\* the same for a field of a part of the surveys section
StoredSurveyField(pdata, part, f) ==
    IF "surveys" \in DOMAIN pdata /\ part \in DOMAIN pdata.surveys
    THEN StoredField(pdata.surveys, part, f) ELSE None

\* the trials a record stores for a phase
StoredTrials(pdata, phase) ==
    IF "trials" \in DOMAIN pdata /\ PhaseKey[phase] \in DOMAIN pdata.trials
    THEN pdata.trials[PhaseKey[phase]] ELSE << >>

\* the number of trials of a phase that the first k records store
RECURSIVE StoredCount(_, _, _)
StoredCount(data, phase, k) ==
    IF k = 0 THEN 0
    ELSE StoredCount(data, phase, k - 1) + Len(StoredTrials(data[k].pdata, phase))

\* the records with a non-empty demographics section
WithDemographics(data) ==
    {k \in 1..Len(data) : "demographics" \in DOMAIN data[k].pdata
                              /\ DOMAIN data[k].pdata.demographics # {}}

\* the row of a trials table is the trial with the participant's id: its
\* stored fields, NaN in the columns the trial lacks
TrialRowIs(row, participant_id, trial) ==
    /\ row["participant_id"] = participant_id
    /\ \A c \in DOMAIN row \ {"participant_id"} :
           row[c] = IF c \in DOMAIN trial THEN trial[c] ELSE NaN
    /\ DOMAIN trial \subseteq DOMAIN row

\* C12: the export fails on no record that lacks a field or a section; the
\* participants table and the surveys table hold one row per participant, in
\* order, with the stored value in each cell and None (written as the empty
\* string) where the field or its section is missing; the table of a phase
\* holds one row per stored trial of that phase, carrying the participant's id
\* and the trial's fields, the other cells NaN (written empty); the
\* demographics table holds a row for each record with demographics
ExportOneRowEach ==
    /\ error # "none" => firebase_data = << >>
    /\ Exported =>
        /\ Len(df_participants) = Len(firebase_data)
        /\ Len(df_surveys) = Len(firebase_data)
        /\ Len(df_demographics) = Cardinality(WithDemographics(firebase_data))
        /\ \A k \in 1..Len(firebase_data) :
            /\ df_participants[k]["participant_id"] = firebase_data[k].id
            /\ df_surveys[k]["participant_id"] = firebase_data[k].id
            /\ \A f \in MetadataFields :
                df_participants[k][f] = StoredField(firebase_data[k].pdata, "metadata", f)
            /\ \A f \in SummaryFields :
                df_participants[k][f] = StoredField(firebase_data[k].pdata, "summary", f)
            /\ \A f \in TechnicalCheckFields :
                df_surveys[k][f] =
                    StoredSurveyField(firebase_data[k].pdata, "technical_check", f)
            /\ \A f \in UserFeedbackFields :
                df_surveys[k][f] =
                    StoredSurveyField(firebase_data[k].pdata, "user_feedback", f)
        /\ \A phase \in 1..3 :
            /\ Len(df_trials[phase]) =
                   StoredCount(firebase_data, phase, Len(firebase_data))
            /\ \A k \in 1..Len(firebase_data) :
                 \A t \in 1..Len(StoredTrials(firebase_data[k].pdata, phase)) :
                    TrialRowIs(df_trials[phase][StoredCount(firebase_data, phase, k - 1) + t],
                               firebase_data[k].id,
                               StoredTrials(firebase_data[k].pdata, phase)[t])

\* C12 witness: two records exported, one without a trials section and one
\* without a surveys section, each with its row in both per-participant
\* tables
SectionlessRecordsExported ==
    /\ Exported
    /\ Len(df_participants) = 2
    /\ Len(df_surveys) = 2
    /\ "trials" \notin DOMAIN firebase_data[1].pdata
    /\ "surveys" \notin DOMAIN firebase_data[2].pdata
    /\ \A f \in TechnicalCheckFields \cup UserFeedbackFields :
           df_surveys[2][f] = None

(***************************************************************************)
(* generate_colored_faces.py.  A file name is the sequence of its          *)
(* characters; a path is a directory with a file name.                     *)
(***************************************************************************)
INPUT_DIR == "stimuli/fg_faces"
OUTPUT_DIR == "stimuli/faces"

\* the number of loop rounds, range(100)
ImageCount == 100

DigitChar == <<"0", "1", "2", "3", "4", "5", "6", "7", "8", "9">>

\* str(n) for n >= 0
RECURSIVE str(_)
str(n) ==
    IF n < 10 THEN <<DigitChar[n + 1]>>
    ELSE str(n \div 10) \o <<DigitChar[(n % 10) + 1]>>

\* s.zfill(width): zeros on the left up to the width, nothing cut off
RECURSIVE zfill(_, _)
zfill(s, width) == IF Len(s) >= width THEN s ELSE zfill(<<"0">> \o s, width)

\* os.path.join(dir, name)
join(dir, name) == [dir |-> dir, name |-> name]

face_ == <<"f", "a", "c", "e", "_">>
png == <<".", "p", "n", "g">>

input_num(k) == k + 1
output_num(k) == k

input_path(k) == join(INPUT_DIR, face_ \o zfill(str(input_num(k)), 3) \o png)

output_path_red(k) ==
    join(OUTPUT_DIR,
         face_ \o zfill(str(output_num(k)), 3) \o <<"_", "r", "e", "d">> \o png)

\* the blue path given the red suffix
output_path_blue_as_red(k) == output_path_red(k)

output_path_blue(k) ==
    join(OUTPUT_DIR,
         face_ \o zfill(str(output_num(k)), 3) \o <<"_", "b", "l", "u", "e">> \o png)

\* os.path.exists(path) for a path into INPUT_DIR
exists(path) == path.dir = INPUT_DIR /\ path.name \in fg_faces

\* image.save(path, 'PNG'): the file at the path is replaced
save(dir_files, path, source, color) ==
    {f \in dir_files : f.path # path}
        \cup {[path |-> path, source |-> source, color |-> color]}

\* one round of the loop: both versions of the round's input, or a warning
ComposeFace ==
    /\ pc = "compose"
    /\ i < ImageCount
    /\ faces' = IF exists(input_path(i))
                THEN save(save(faces, output_path_red(i), input_path(i), "red"),
                          output_path_blue(i), input_path(i), "blue")
                ELSE faces
    /\ i' = i + 1
    /\ pc' = IF i + 1 = ImageCount THEN "done" ELSE "compose"
    /\ UNCHANGED <<design_vars, export_vars, generate_vars, fg_faces, error>>

NextCompose == ComposeFace

\* Input directories: any of the first MaxListed and the last of the names
\* face_001.png .. face_100.png, and files named otherwise
MaxListed == 2

ListedNames ==
    {input_path(k).name : k \in 0..MaxListed - 1} \cup {input_path(ImageCount - 1).name}

OtherNames ==
    {face_ \o <<"0", "0", "0">> \o png,
     face_ \o <<"1", "0", "1">> \o png,
     face_ \o <<"1">> \o png,
     <<"p", "h", "o", "t", "o">> \o png}

InitCompose ==
    /\ DesignIdle
    /\ ExportIdle
    /\ GenerateIdle
    /\ i = 0
    /\ error = "none"
    /\ pc = "compose"
    /\ fg_faces \in SUBSET (ListedNames \cup OtherNames)
    /\ faces = {}

SpecCompose == InitCompose /\ [][NextCompose]_vars

(***************************************************************************)
(* C13  one output per input image and colour (SpecCompose)                *)
(***************************************************************************)
Composed == pc = "done" /\ i = ImageCount

\* the outputs composited from the input file name on the colour color
OutputsOf(name, color) ==
    {f \in faces : f.source = join(INPUT_DIR, name) /\ f.color = color}

\* the names face_001.png .. face_100.png
ManifestNames == {face_ \o zfill(str(k), 3) \o png : k \in 1..ImageCount}

\* C13 as stated: the inputs are found by scanning the input directory, so
\* that every file in it, whatever its name, has exactly one output for each
\* of red and blue, the outputs number twice the inputs, and two inputs never
\* share an output path
EveryInputFileComposited ==
    Composed =>
        /\ \A name \in fg_faces : \A color \in {"red", "blue"} :
               Cardinality(OutputsOf(name, color)) = 1
        /\ Cardinality(faces) = 2 * Cardinality(fg_faces)
        /\ \A f, g \in faces : f.path = g.path => f.source = g.source

\* C13 amended: the inputs are the files among face_001.png .. face_100.png
\* that exist; each has exactly one output for each of red and blue, a file
\* named otherwise has none, the outputs number twice the existing listed
\* inputs, and two inputs never share an output path
EveryListedFileComposited ==
    Composed =>
        /\ \A name \in fg_faces : \A color \in {"red", "blue"} :
               Cardinality(OutputsOf(name, color)) =
                   IF name \in ManifestNames THEN 1 ELSE 0
        /\ Cardinality(faces) = 2 * Cardinality(fg_faces \cap ManifestNames)
        /\ \A f, g \in faces : f.path = g.path => f = g

\* C13 witness: a directory holding listed files and files named otherwise
\* has been processed
MixedDirectoryComposited ==
    /\ Composed
    /\ fg_faces \cap ManifestNames # {}
    /\ fg_faces \ ManifestNames # {}
    /\ Cardinality(faces) = 2 * Cardinality(fg_faces \cap ManifestNames)

(***************************************************************************)
(* generate_faces.py: create_design_matrix.  np.random.shuffle leaves some *)
(* arrangement of the list it is given and the beta samples round to some  *)
(* ages from 18 to 35; both are chosen from small families of outcomes.    *)
(***************************************************************************)
races == <<"african", "european", "eastAsian", "southAsian">>

MaleCount == 13
FemaleCount == 12
SampleCount == 25
MinAge == 18
MaxAge == 35

\* ['male'] * 13 + ['female'] * 12
genders_list ==
    [j \in 1..MaleCount + FemaleCount |-> IF j <= MaleCount THEN "male" ELSE "female"]

\* xs turned left by r places
Rotate(xs, r) == [j \in 1..Len(xs) |-> xs[((j - 1 + r) % Len(xs)) + 1]]

MaxRotation == 2
MaxAgeStride == 1

\* outcomes of np.random.shuffle(xs): arrangements of the same elements
Shuffles(xs) == {Rotate(xs, r) : r \in 0..MaxRotation}

\* outcomes of generate_age_natural_distribution(n_samples): n_samples ages
\* from 18 to 35
generate_age_natural_distribution(n_samples) ==
    {[j \in 1..n_samples |-> MinAge + ((j * m) % (MaxAge - MinAge + 1))] :
         m \in 0..MaxAgeStride}

\* f'face_{face_id:03d}'
face_name(n) == face_ \o zfill(str(n), 3)

\* the rows appended for one race: zip(genders, ages) stops with the shorter
race_rows(race_name, first_id, genders, ages) ==
    [j \in 1..Min(Len(genders), Len(ages)) |->
        [face_id |-> face_name(first_id + j - 1), race |-> race_name,
         gender |-> genders[j], age |-> ages[j]]]

\* one round of the loop over races with the outcomes of the two random calls
CreateRaceWith(rows) ==
    /\ design_df' = design_df \o rows
    /\ face_id' = face_id + Len(rows)
    /\ race' = race + 1
    /\ pc' = IF race = Len(races) THEN "loop" ELSE "design"

CreateRace ==
    /\ pc = "design"
    /\ \E genders \in Shuffles(genders_list),
          ages \in generate_age_natural_distribution(SampleCount) :
           CreateRaceWith(race_rows(races[race], face_id, genders, ages))
    /\ UNCHANGED <<design_vars, export_vars, compose_vars, i, error, idx,
                   success_count, failed_faces, files, ran, success>>

NextDesign == CreateRace

InitDesign ==
    /\ DesignIdle
    /\ ExportIdle
    /\ ComposeIdle
    /\ GenerateIdle
    /\ i = 0
    /\ error = "none"
    /\ pc = "design"

SpecDesign == InitDesign /\ [][NextDesign]_vars

(***************************************************************************)
(* C14  the design matrix is counterbalanced (SpecDesign)                  *)
(***************************************************************************)
\* create_design_matrix has returned
DesignCreated == pc = "loop" /\ race = Len(races) + 1

\* the rows of a race and gender
RowsOf(race_name, gender) ==
    {k \in 1..Len(design_df) :
         design_df[k].race = race_name /\ design_df[k].gender = gender}

RaceNames == {races[r] : r \in 1..Len(races)}

\* C14: whatever the shuffles and the sampled ages, the design matrix has
\* exactly 100 faces with the ids face_001 .. face_100, 25 of each of the four
\* races, 50 male and 50 female faces overall, and within each race the two
\* genders balanced (12 and 13)
DesignCounterbalanced ==
    DesignCreated =>
        /\ Len(design_df) = 100
        /\ \A k \in 1..Len(design_df) : design_df[k].face_id = face_name(k)
        /\ \A r \in RaceNames :
            /\ Cardinality(RowsOf(r, "male")) + Cardinality(RowsOf(r, "female")) = 25
            /\ Cardinality(RowsOf(r, "male")) - Cardinality(RowsOf(r, "female"))
                   \in {-1, 1}
        /\ Cardinality(UNION {RowsOf(r, "male") : r \in RaceNames}) = 50
        /\ Cardinality(UNION {RowsOf(r, "female") : r \in RaceNames}) = 50

(***************************************************************************)
(* generate_faces.py: generate_single_face and the loop of main.  The six  *)
(* external commands succeed or fail as the tools decide; a command that   *)
(* succeeds leaves its output file in the working directory.               *)
(***************************************************************************)
\* the descriptions of the six commands, in the order of the function body
commands ==
    <<"Creating base face", "Setting age", "Applying to mesh",
      "Applying to color map", "Setting up render", "Rendering final image">>

\* the suffixes of base_fg, aged_fg, mesh_tri, texture_jpg, config_txt and
\* final_png: the file that the command at each position writes
suffixes ==
    <<<<"_", "b", "a", "s", "e", ".", "f", "g">>,
      <<"_", "a", "g", "e", "d", ".", "f", "g">>,
      <<".", "t", "r", "i">>,
      <<"_", "t", "e", "x", "t", "u", "r", "e", ".", "j", "p", "g">>,
      <<"_", "c", "o", "n", "f", "i", "g", ".", "t", "x", "t">>,
      <<".", "p", "n", "g">>>>

\* the file of a face that the command at position step writes
output_file(face, step) == face \o suffixes[step]

\* [base_fg, aged_fg, mesh_tri, texture_jpg, config_txt]
temp_files(face) == {output_file(face, step) : step \in 1..5}

\* the row that the loop of main is at
row == design_df[idx + 1]

\* where generate_single_face goes after a command, with every result taken
\* for a success
after_command_unchecked(step, ok) ==
    IF step = Len(commands) THEN "cleanup" ELSE "command"

\* where generate_single_face goes after the command at position step:
\* return False on a failure, the next command, or the clean-up after the last
after_command(step, ok) ==
    IF ~ok THEN "tally"
    ELSE IF step = Len(commands) THEN "cleanup" ELSE "command"

MaxFailing == 1

\* the results run_command can have for the face at index k: the tools may
\* fail on the first MaxFailing faces and on the last face
Outcomes(k) ==
    IF k < MaxFailing \/ k = Len(design_df) - 1 THEN {TRUE, FALSE} ELSE {TRUE}

\* main's loop takes the next row and calls generate_single_face
CallGenerate ==
    /\ pc = "loop"
    /\ idx < Len(design_df)
    /\ ran' = << >>
    /\ pc' = "command"
    /\ UNCHANGED <<design_vars, export_vars, compose_vars, i, error, design_df,
                   race, face_id, idx, success_count, failed_faces, files, success>>

\* the next command of generate_single_face with the result ok
RunCommandAt(step, ok) ==
    /\ ran' = Append(ran, [cmd |-> commands[step], ok |-> ok])
    /\ files' = IF ok THEN files \cup {output_file(row.face_id, step)} ELSE files
    /\ success' = (ok /\ success)
    /\ pc' = after_command(step, ok)

RunCommand ==
    /\ pc = "command"
    /\ \E ok \in Outcomes(idx) : RunCommandAt(Len(ran) + 1, ok)
    /\ UNCHANGED <<design_vars, export_vars, compose_vars, i, error, design_df,
                   race, face_id, idx, success_count, failed_faces>>

\* the clean-up of the intermediate files and return True
Cleanup ==
    /\ pc = "cleanup"
    /\ files' = files \ temp_files(row.face_id)
    /\ success' = TRUE
    /\ pc' = "tally"
    /\ UNCHANGED <<design_vars, export_vars, compose_vars, i, error, design_df,
                   race, face_id, idx, success_count, failed_faces, ran>>

\* main counts the face and goes on to the next row
Tally ==
    /\ pc = "tally"
    /\ IF success
       THEN success_count' = success_count + 1 /\ failed_faces' = failed_faces
       ELSE failed_faces' = Append(failed_faces, row.face_id)
            /\ success_count' = success_count
    /\ idx' = idx + 1
    /\ pc' = "loop"
    /\ UNCHANGED <<design_vars, export_vars, compose_vars, i, error, design_df,
                   race, face_id, files, ran, success>>

\* the loop of main is through
Finish ==
    /\ pc = "loop"
    /\ idx = Len(design_df)
    /\ pc' = "done"
    /\ UNCHANGED <<design_vars, export_vars, compose_vars, i, error,
                   generate_vars>>

NextGenerate == CallGenerate \/ RunCommand \/ Cleanup \/ Tally \/ Finish

\* the rows that create_design_matrix builds from race number r on when every
\* shuffle turns the list by turn places and the ages are the samples ages
RECURSIVE design_from(_, _, _)
design_from(r, turn, ages) ==
    IF r > Len(races) THEN << >>
    ELSE race_rows(races[r], SampleCount * (r - 1) + 1,
                   Rotate(genders_list, turn), ages)
         \o design_from(r + 1, turn, ages)

InitGenerate ==
    /\ DesignIdle
    /\ ExportIdle
    /\ ComposeIdle
    /\ i = 0
    /\ error = "none"
    /\ \E ages \in generate_age_natural_distribution(SampleCount) :
           design_df = design_from(1, MaxRotation, ages)
    /\ race = Len(races) + 1
    /\ face_id = Len(design_df) + 1
    /\ idx = 0
    /\ success_count = 0
    /\ failed_faces = << >>
    /\ files = {}
    /\ ran = << >>
    /\ success = FALSE
    /\ pc = "loop"

SpecGenerate == InitGenerate /\ [][NextGenerate]_vars

(***************************************************************************)
(* C15  the six commands of a face and the tally of main (SpecGenerate)    *)
(***************************************************************************)
\* every command run so far for the face succeeded
AllSucceeded == \A k \in 1..Len(ran) : ran[k].ok

\* the state of generate_single_face and of main's tally
GenerationState ==
    /\ pc \in {"loop", "command", "cleanup", "tally", "done"}
    /\ error = "none"
    \* the commands run for the face are the first ones of the six, in order,
    \* and only the last of them can have failed
    /\ Len(ran) <= Len(commands)
    /\ \A k \in 1..Len(ran) :
           ran[k].cmd = commands[k] /\ (k < Len(ran) => ran[k].ok)
    \* another command is started only after every earlier one succeeded
    /\ pc = "command" => AllSucceeded /\ Len(ran) < Len(commands)
    /\ pc = "cleanup" => AllSucceeded /\ Len(ran) = Len(commands)
    \* it returns True exactly after all six succeeded, False with a failed
    \* command as the last one run
    /\ pc = "tally" =>
           IF success THEN AllSucceeded /\ Len(ran) = Len(commands)
           ELSE ran # << >> /\ ~ran[Len(ran)].ok
    \* until it returns True nothing is removed: the file of every command
    \* that succeeded is there
    /\ (pc \in {"command", "cleanup"} \/ (pc = "tally" /\ ~success)) =>
           \A k \in 1..Len(ran) :
               ran[k].ok => output_file(row.face_id, k) \in files
    \* after True the five intermediate files are gone and the image is there
    /\ (pc = "tally" /\ success) =>
           /\ temp_files(row.face_id) \cap files = {}
           /\ output_file(row.face_id, Len(commands)) \in files
    \* every face processed so far is counted once
    /\ success_count + Len(failed_faces) = idx
    /\ pc \in {"command", "cleanup", "tally"} => idx < Len(design_df)
    /\ pc = "done" => idx = Len(design_df)

\* what a step does: a failed command ends the call, the tally goes on to
\* the next row, and files are removed only by the clean-up
GenerationStep ==
    /\ (pc = "command" /\ ~AllSucceeded') => pc' = "tally" /\ ~success'
    /\ pc = "tally" => pc' = "loop" /\ idx' = idx + 1
    /\ (pc = "loop" /\ idx < Len(design_df)) => pc' = "command" /\ ran' = << >>
    /\ ~(files \subseteq files') => pc = "cleanup"

\* C15: generate_single_face runs create-base, set-age, apply-to-mesh,
\* apply-to-color-map, render-setup and render-run in this order, each only
\* after every earlier one succeeded; at the first failure it returns False at
\* once, with no later command run and no intermediate file removed; it
\* returns True only after all six succeeded, and only then are the five
\* intermediate files deleted; in main every processed face is counted once
\* (success_count + len(failed_faces) is the number processed) and a failed
\* face is followed by the next row until all rows are processed
SixCommandsInOrder == []GenerationState /\ [][GenerationStep]_vars

\* C15 witness: the run is through with the first face failed at its second
\* command, its base file left behind, and the other 99 faces generated
FailedFaceLeftBehind ==
    /\ pc = "done"
    /\ failed_faces = <<face_name(1)>>
    /\ success_count = 99
    /\ output_file(face_name(1), 1) \in files
    /\ output_file(face_name(1), 2) \notin files
    /\ output_file(face_name(2), 6) \in files
    /\ temp_files(face_name(2)) \cap files = {}
====
